---- MODULE Spec2Model ----
(***************************************************************************)
(* The nodriver proxy sidecar (infra/nodriver-proxy/server.py).            *)
(*                                                                         *)
(* State: the NodriverProxy object (its browser handle), the run_server    *)
(* coroutine's position, the browser engine's tabs, and one record per     *)
(* HTTP request holding the handler coroutine's position, its locals and   *)
(* the response it returned.  Every await on the browser (get, sleep,      *)
(* get_content, close) is a suspension point: the engine's answer, an      *)
(* exception or the wait_for deadline resumes the handler there.           *)
(*                                                                         *)
(* Durations are kept in milliseconds (tab.sleep(wait_ms / 1000) sleeps    *)
(* wait_ms milliseconds, tab.sleep(1) sleeps 1000).                        *)
(*                                                                         *)
(* The engine is the environment.  browser.get is two steps, the engine    *)
(* creating the tab and the handler receiving it, because the handler can  *)
(* be resumed by an exception or by the deadline in between.  tab.close    *)
(* that returns has closed the tab; one that raises or is abandoned by the *)
(* deadline has not.  asyncio.wait_for delivers the expired deadline as a  *)
(* CancelledError at the await fetch_page is suspended at, once, and       *)
(* raises TimeoutError when fetch_page has ended with that CancelledError. *)
(***************************************************************************)
EXTENDS Integers, Sequences, FiniteSets, TLC

VARIABLES
    srv,        \* position of run_server, or "direct" when the object is driven as in server_test.py
    browser,    \* NodriverProxy.browser: None or the handle
    session,    \* lifecycle of the engine process: "Stopped", "Starting", "Ready"
    stops,      \* number of Browser.stop() calls issued to an engine process
    tabs,       \* the engine's tabs, in creation order: [owner, state]
    req         \* per request: handler position, locals, response

vars == <<srv, browser, session, stops, tabs, req>>

-----------------------------------------------------------------------------
(* Bounds and inputs *)

MaxReq == 2

Reqs == 1 .. MaxReq

None == <<>>
Some(x) == <<x>>

\* Query strings are sequences of one-character strings.
Urls == {None, Some(""), Some("https://example.com")}

WaitParams ==
    { None,
      Some(<<>>),
      Some(<<"0">>),
      Some(<<"3", "0", "0", "0">>),
      Some(<<"-", "5">>),
      Some(<<"a", "b", "c">>) }

Pages == {"<html><body>Hello</body></html>", "<html></html>"}

-----------------------------------------------------------------------------
(* Program constants *)

DEFAULT_SETTLE_MS == 1000

MissingUrlText == <<"Missing required query parameter: url">>
InvalidWaitText == <<"Invalid wait parameter">>
TimeoutText == <<"Proxy timeout">>
OkText == <<"ok">>
NotReadyText == <<"browser not ready">>
NotStartedMsg == "Browser not started"

FailedText(cause) == <<"Proxy request failed: ", cause>>

\* The message of the exception a failing browser operation raises.
ErrOf(op) == op \o " failed"

-----------------------------------------------------------------------------
(* int(): Python's integer parsing of a str *)

DigitChars == <<"0", "1", "2", "3", "4", "5", "6", "7", "8", "9">>

IsDigit(c) == \E i \in 1 .. 10 : DigitChars[i] = c

DigitOf(c) == (CHOOSE i \in 1 .. 10 : DigitChars[i] = c) - 1

RECURSIVE StripLeft(_)
StripLeft(s) ==
    IF s # <<>> /\ Head(s) = " " THEN StripLeft(Tail(s)) ELSE s

RECURSIVE StripRight(_)
StripRight(s) ==
    IF s # <<>> /\ s[Len(s)] = " " THEN StripRight(SubSeq(s, 1, Len(s) - 1)) ELSE s

Strip(s) == StripRight(StripLeft(s))

Unsigned(s) ==
    IF s # <<>> /\ Head(s) \in {"+", "-"} THEN Tail(s) ELSE s

RECURSIVE DigitsValue(_)
DigitsValue(ds) ==
    IF ds = <<>> THEN 0
    ELSE 10 * DigitsValue(SubSeq(ds, 1, Len(ds) - 1)) + DigitOf(ds[Len(ds)])

\* int(s) does not raise ValueError
IntOk(s) ==
    LET d == Unsigned(Strip(s))
    IN  d # <<>> /\ \A i \in 1 .. Len(d) : IsDigit(d[i])

IntValue(s) ==
    LET t == Strip(s)
    IN  IF Head(t) = "-" THEN 0 - DigitsValue(Unsigned(t)) ELSE DigitsValue(Unsigned(t))

\* int(s): Some(value), or None where int raises ValueError
ParseInt(s) == IF IntOk(s) THEN Some(IntValue(s)) ELSE None

-----------------------------------------------------------------------------
(* Truthiness of the values the handlers test with "if x:" *)

TruthyUrl(o) == o # None /\ o[1] # ""

TruthyWait(o) == o # None /\ o[1] # <<>>

TruthyInt(o) == o # None /\ o[1] # 0

-----------------------------------------------------------------------------
(* The initial state *)

\* A request nobody has sent yet.
IdleReq ==
    [ pc |-> "idle",        \* idle, opening, sleeping, extracting, closing, done, aborted
      route |-> "",         \* "/" or "/health"
      url |-> None,         \* request.query.get("url")
      wait |-> None,        \* request.query.get("wait")
      wait_ms |-> None,     \* handle_proxy's wait_ms
      tab |-> 0,            \* fetch_page's tab: 0 before browser.get returned, else the tab's index
      slept |-> None,       \* the duration passed to tab.sleep, in milliseconds
      content |-> None,     \* fetch_page's content
      exc |-> "",           \* what the finally block is unwinding: "return", "cancel" or a message
      status |-> 0,         \* the response's status, 0 while there is none
      body |-> None,        \* the response's text
      opens |-> 0,          \* calls of browser.get made for the request
      closes |-> 0,         \* calls of tab.close made for the request
      steps |-> 0,          \* how many of get, sleep, get_content returned normally
      closed |-> FALSE,     \* tab.close returned normally
      fail |-> "",          \* the first operation that raised, "notready" for the RuntimeError of line 57
      expiredAt |-> "",     \* the await the wait_for deadline expired at
      ready |-> FALSE ]     \* /health: whether the session was Ready when probed

\* run_server constructs the proxy with no browser (line 116); the tests construct
\* it and assign the browser themselves, a mock or None.
Init ==
    /\ \/ srv = "new" /\ browser = None
       \/ srv = "direct" /\ browser \in {None, Some("mock")}
    /\ session = IF browser = None THEN "Stopped" ELSE "Ready"
    /\ stops = 0
    /\ tabs = <<>>
    /\ req = [r \in Reqs |-> IdleReq]

-----------------------------------------------------------------------------
(* NodriverProxy.start_browser / stop_browser *)

\* start_browser up to the await of nodriver.start
StartBrowserBegin ==
    /\ session' = "Starting"
    /\ UNCHANGED <<browser, stops, tabs>>

\* nodriver.start returned the handle: self.browser is assigned
StartBrowserDone ==
    /\ session = "Starting"
    /\ browser' = Some("chrome")
    /\ session' = "Ready"
    /\ UNCHANGED <<stops, tabs>>

\* nodriver.start raised: self.browser stays None, the exception propagates
StartBrowserFail ==
    /\ session = "Starting"
    /\ session' = "Stopped"
    /\ UNCHANGED <<browser, stops, tabs>>

\* Browser.stop() terminates the engine process and with it every tab.
KillTabs == [i \in DOMAIN tabs |-> [tabs[i] EXCEPT !.state = "closed"]]

\* Faulty variant: stop_browser does not reset self.browser
StopBrowserKeepsHandle ==
    IF browser # None
    THEN /\ stops' = stops + 1
         /\ browser' = browser
         /\ session' = "Stopped"
         /\ tabs' = KillTabs
    ELSE UNCHANGED <<browser, session, stops, tabs>>

\* Faulty variant: stop_browser without the "if self.browser" guard
StopBrowserUnguarded ==
    /\ stops' = stops + 1
    /\ browser' = None
    /\ session' = "Stopped"
    /\ tabs' = KillTabs

StopBrowser ==
    IF browser # None
    THEN /\ stops' = stops + 1
         /\ browser' = None
         /\ session' = "Stopped"
         /\ tabs' = KillTabs
    ELSE UNCHANGED <<browser, session, stops, tabs>>

-----------------------------------------------------------------------------
(* handle_proxy: validation *)

\* Faulty variant: the wait parameter is validated before the url parameter
ValidateWaitFirst(url, wait) ==
    IF TruthyWait(wait) /\ ParseInt(wait[1]) = None THEN "invalid"
    ELSE IF ~TruthyUrl(url) THEN "missing"
    ELSE "ok"

\* Faulty variant: the ValueError of int() is swallowed and the request goes on
ValidateSwallow(url, wait) ==
    IF ~TruthyUrl(url) THEN "missing" ELSE "ok"

\* lines 75-87: which response, if any, validation produces
Validate(url, wait) ==
    IF ~TruthyUrl(url) THEN "missing"
    ELSE IF TruthyWait(wait) /\ ParseInt(wait[1]) = None THEN "invalid"
    ELSE "ok"

\* lines 81-85: wait_ms for a request that passed validation
WaitMs(wait) ==
    IF TruthyWait(wait) THEN ParseInt(wait[1]) ELSE None

\* lines 61-65: the settle delay, in milliseconds
SettleMs(wait_ms) ==
    IF TruthyInt(wait_ms) THEN wait_ms[1] ELSE DEFAULT_SETTLE_MS

\* The handler returns a response; a content that is not the response's text is lost.
Done(q, status, body) ==
    [q EXCEPT !.pc = "done", !.status = status, !.body = body, !.exc = "",
              !.content = IF status = 200 THEN q.content ELSE None]

\* wait, wait_ms and slept describe the settle wait of lines 61-65 and are read
\* for the last time there: the record of a request drops them when tab.sleep
\* has ended or can no longer be reached (the browser was not started,
\* browser.get raised or was cancelled).
PastSettle(q) == [q EXCEPT !.wait = None, !.wait_ms = None, !.slept = None]

InFlight(q) == q.pc \in {"opening", "sleeping", "extracting", "closing"}

\* The site (or the test server) is routing requests to the handlers.
Accepting == srv \in {"listening", "direct"}

\* Requests are numbered in the order they arrive.
NextToArrive(r) == req[r].pc = "idle" /\ \A q \in Reqs : q < r => req[q].pc # "idle"

\* handle_proxy from its first line to its first await (browser.get) or its
\* early return; fetch_page's readiness check is reached without suspension.
HandleProxyStart(q, url, wait) ==
    LET a == [q EXCEPT !.route = "/", !.url = url, !.wait = wait]
        v == Validate(url, wait)
    IN  IF v = "missing" THEN Done(a, 400, MissingUrlText)
        ELSE IF v = "invalid" THEN Done(a, 400, InvalidWaitText)
        ELSE IF browser = None
             THEN Done([PastSettle(a) EXCEPT !.fail = "notready"], 502, FailedText(NotStartedMsg))
        ELSE [a EXCEPT !.pc = "opening", !.wait_ms = WaitMs(wait), !.opens = @ + 1]

HandleProxy(r) ==
    /\ Accepting
    /\ NextToArrive(r)
    /\ \E url \in Urls, wait \in WaitParams :
           req' = [req EXCEPT ![r] = HandleProxyStart(req[r], url, wait)]
    /\ UNCHANGED <<srv, browser, session, stops, tabs>>

\* handle_health, which never suspends
HealthResponse(q) ==
    IF browser # None
    THEN Done([q EXCEPT !.route = "/health", !.ready = (session = "Ready")], 200, OkText)
    ELSE Done([q EXCEPT !.route = "/health", !.ready = (session = "Ready")], 503, NotReadyText)

\* Faulty variant: a health probe that finds no browser starts one
HandleHealthRestarts(r) ==
    /\ Accepting
    /\ NextToArrive(r)
    /\ req' = [req EXCEPT ![r] = HealthResponse(req[r])]
    /\ IF browser = None
       THEN browser' = Some("chrome") /\ session' = "Ready"
       ELSE UNCHANGED <<browser, session>>
    /\ UNCHANGED <<srv, stops, tabs>>

HandleHealth(r) ==
    /\ Accepting
    /\ NextToArrive(r)
    /\ req' = [req EXCEPT ![r] = HealthResponse(req[r])]
    /\ UNCHANGED <<srv, browser, session, stops, tabs>>

-----------------------------------------------------------------------------
(* fetch_page: the awaits on the browser *)

OwnedBy(r) == {i \in DOMAIN tabs : tabs[i].owner = r}

\* The engine creates the tab browser.get asked for; the handler is still suspended.
BrowserCreateTab(r) ==
    /\ req[r].pc = "opening"
    /\ session = "Ready"
    /\ OwnedBy(r) = {}
    /\ tabs' = Append(tabs, [owner |-> r, state |-> "open"])
    /\ UNCHANGED <<srv, browser, session, stops, req>>

\* line 59 returns the tab; lines 60-65 run up to the await of tab.sleep
AfterOpen(q, i) ==
    [q EXCEPT !.pc = "sleeping", !.tab = i, !.steps = 1, !.slept = Some(SettleMs(q.wait_ms))]

OpenReturn(r) ==
    /\ req[r].pc = "opening"
    /\ \E i \in OwnedBy(r) : req' = [req EXCEPT ![r] = AfterOpen(req[r], i)]
    /\ UNCHANGED <<srv, browser, session, stops, tabs>>

\* browser.get raises: line 59 is outside the try, nothing is closed;
\* handle_proxy's except Exception answers 502
AfterOpenRaise(q) ==
    Done([PastSettle(q) EXCEPT !.fail = "get"], 502, FailedText(ErrOf("get")))

\* Faulty variant: a failed browser.get makes the handler drop the shared handle
OpenRaiseDropsBrowser(r) ==
    /\ req[r].pc = "opening"
    /\ req' = [req EXCEPT ![r] = AfterOpenRaise(req[r])]
    /\ browser' = None
    /\ UNCHANGED <<srv, session, stops, tabs>>

\* browser.get raises a TimeoutError (a navigation the engine gave up on):
\* asyncio.TimeoutError is that class, so the except clause of lines 100-102
\* takes it for the expired deadline and answers 504. The clause takes a
\* TimeoutError of the later operations the same way; browser.get's stands for them.
AfterOpenTimeoutError(q) ==
    Done([PastSettle(q) EXCEPT !.fail = "get"], 504, TimeoutText)

OpenRaise(r) ==
    /\ req[r].pc = "opening"
    /\ \E after \in {AfterOpenRaise(req[r]), AfterOpenTimeoutError(req[r])} :
           req' = [req EXCEPT ![r] = after]
    /\ UNCHANGED <<srv, browser, session, stops, tabs>>

\* Entering the finally block of lines 69-70: tab.close() is called and awaited.
EnterFinally(q, how) ==
    [q EXCEPT !.pc = "closing", !.exc = how, !.closes = @ + 1]

\* tab.sleep returned; line 67 awaits tab.get_content
SleepReturn(r) ==
    /\ req[r].pc = "sleeping"
    /\ req' = [req EXCEPT ![r] = [PastSettle(@) EXCEPT !.pc = "extracting", !.steps = 2]]
    /\ UNCHANGED <<srv, browser, session, stops, tabs>>

\* Faulty variant: tab.sleep is awaited outside the try, its exception skips the finally block
AfterSleepRaiseNoClose(q) ==
    Done([PastSettle(q) EXCEPT !.fail = "sleep"], 502, FailedText(ErrOf("sleep")))

\* tab.sleep raised: the finally block runs with the exception pending
AfterSleepRaise(q) == EnterFinally([PastSettle(q) EXCEPT !.fail = "sleep"], ErrOf("sleep"))

SleepRaise(r) ==
    /\ req[r].pc = "sleeping"
    /\ req' = [req EXCEPT ![r] = AfterSleepRaise(req[r])]
    /\ UNCHANGED <<srv, browser, session, stops, tabs>>

\* tab.get_content returned page; line 68 returns through the finally block
AfterExtract(q, page) ==
    EnterFinally([q EXCEPT !.content = Some(page), !.steps = 3], "return")

ExtractReturn(r) ==
    /\ req[r].pc = "extracting"
    /\ tabs[req[r].tab].state = "open"
    /\ \E page \in Pages : req' = [req EXCEPT ![r] = AfterExtract(req[r], page)]
    /\ UNCHANGED <<srv, browser, session, stops, tabs>>

AfterExtractRaise(q) == EnterFinally([q EXCEPT !.fail = "get_content"], ErrOf("get_content"))

ExtractRaise(r) ==
    /\ req[r].pc = "extracting"
    /\ req' = [req EXCEPT ![r] = AfterExtractRaise(req[r])]
    /\ UNCHANGED <<srv, browser, session, stops, tabs>>

\* Faulty variant: the value returned through the finally block is lost
AfterCloseLosesContent(q) ==
    LET c == [q EXCEPT !.closed = TRUE]
    IN  IF q.exc = "return" THEN Done(c, 200, None)
        ELSE IF q.exc = "cancel" THEN Done(c, 504, TimeoutText)
        ELSE Done(c, 502, FailedText(q.exc))

\* tab.close returned: the finally block ends and what it was unwinding goes on.
\*   "return": fetch_page returns (content, 200), lines 95-99 answer with it;
\*   "cancel": the CancelledError of the expired deadline leaves fetch_page and
\*             wait_for raises TimeoutError, lines 100-102;
\*   a message: the exception reaches except Exception, lines 103-107.
AfterClose(q) ==
    LET c == [q EXCEPT !.closed = TRUE]
    IN  IF q.exc = "return" THEN Done(c, 200, q.content)
        ELSE IF q.exc = "cancel" THEN Done(c, 504, TimeoutText)
        ELSE Done(c, 502, FailedText(q.exc))

\* Faulty variant: close is sent to the browser's newest tab, not to the request's own
CloseReturnClosesLatest(r) ==
    /\ req[r].pc = "closing"
    /\ tabs' = [tabs EXCEPT ![Len(tabs)].state = "closed"]
    /\ req' = [req EXCEPT ![r] = AfterClose(req[r])]
    /\ UNCHANGED <<srv, browser, session, stops>>

\* The engine closed the tab and said so.
CloseReturn(r) ==
    /\ req[r].pc = "closing"
    /\ tabs' = [tabs EXCEPT ![req[r].tab].state = "closed"]
    /\ req' = [req EXCEPT ![r] = AfterClose(req[r])]
    /\ UNCHANGED <<srv, browser, session, stops>>

\* Faulty variant: the exception of tab.close is not caught by handle_proxy and
\* the web server answers 500 for it
AfterCloseRaiseEscapes(q) ==
    Done([q EXCEPT !.fail = IF @ = "" THEN "close" ELSE @], 500, <<"500 Internal Server Error">>)

\* tab.close raised: the new exception replaces whatever the finally block was
\* unwinding (a return value, an exception, the CancelledError) and reaches
\* except Exception.
AfterCloseRaise(q) ==
    Done([q EXCEPT !.fail = IF @ = "" THEN "close" ELSE @], 502, FailedText(ErrOf("close")))

CloseRaise(r) ==
    /\ req[r].pc = "closing"
    /\ req' = [req EXCEPT ![r] = AfterCloseRaise(req[r])]
    /\ UNCHANGED <<srv, browser, session, stops, tabs>>

-----------------------------------------------------------------------------
(* asyncio.wait_for: the deadline *)

\* The deadline is pending from the call of wait_for until it expires or
\* fetch_page finishes.
TimerArmed(q) == InFlight(q) /\ q.expiredAt = ""

\* Faulty variant: no finally block: the expired deadline ends fetch_page at once
AfterTimeoutNoFinally(q) ==
    Done(PastSettle([q EXCEPT !.expiredAt = q.pc]), 504, TimeoutText)

\* The deadline expires: CancelledError is raised in fetch_page at the await it
\* is suspended at.
\*   at browser.get (line 59, outside the try): nothing to unwind, 504;
\*   at tab.sleep or tab.get_content: the finally block runs tab.close();
\*   at tab.close (inside the finally block): the await is abandoned, 504.
AfterTimeout(q) ==
    LET e == [q EXCEPT !.expiredAt = q.pc]
    IN  IF q.pc \in {"sleeping", "extracting"} THEN EnterFinally(PastSettle(e), "cancel")
        ELSE Done(PastSettle(e), 504, TimeoutText)

Timeout(r) ==
    /\ TimerArmed(req[r])
    /\ req' = [req EXCEPT ![r] = AfterTimeout(req[r])]
    /\ UNCHANGED <<srv, browser, session, stops, tabs>>

-----------------------------------------------------------------------------
(* run_server *)

\* line 117: start_browser is awaited
RunServerBoot ==
    /\ srv = "new"
    /\ srv' = "starting"
    /\ StartBrowserBegin
    /\ UNCHANGED req

\* line 117 returned; lines 119-124 build the application
RunServerBrowserUp ==
    /\ srv = "starting"
    /\ StartBrowserDone
    /\ srv' = "started"
    /\ UNCHANGED req

\* Faulty variant: the exception of start_browser is swallowed and run_server goes on
RunServerBootFailSwallowed ==
    /\ srv = "starting"
    /\ StartBrowserFail
    /\ srv' = "started"
    /\ UNCHANGED req

\* start_browser raised: run_server ends with the exception
RunServerBootFail ==
    /\ srv = "starting"
    /\ StartBrowserFail
    /\ srv' = "crashed"
    /\ UNCHANGED req

\* line 126: site.start(); lines 130-134 wait for the signal
RunServerListen ==
    /\ srv = "started"
    /\ srv' = "listening"
    /\ UNCHANGED <<browser, session, stops, tabs, req>>

\* A handler cancelled by runner.cleanup(): CancelledError at its await, no
\* response; inside the try the finally block still calls tab.close().
Abort(q) ==
    IF ~InFlight(q) THEN q
    ELSE [PastSettle(q) EXCEPT !.pc = "aborted", !.exc = "", !.content = None,
                   !.closes = IF q.pc \in {"sleeping", "extracting"} THEN @ + 1 ELSE @]

\* Faulty variant: stop_browser is called before runner.cleanup(), the site still up
RunServerStopsBeforeCleanup ==
    /\ srv = "listening"
    /\ browser # None
    /\ StopBrowser
    /\ UNCHANGED <<srv, req>>

\* SIGINT or SIGTERM sets the event of line 134; line 137: runner.cleanup()
\* stops the site and ends the handlers still running
RunServerCleanup ==
    /\ srv = "listening"
    /\ srv' = "cleaned"
    /\ req' = [r \in Reqs |-> Abort(req[r])]
    /\ UNCHANGED <<browser, session, stops, tabs>>

\* line 138: stop_browser
RunServerStop ==
    /\ srv = "cleaned"
    /\ StopBrowser
    /\ srv' = "exited"
    /\ UNCHANGED req

-----------------------------------------------------------------------------
(* The object driven directly, as server_test.py drives it *)

\* stop_browser called on the object
DirectStop ==
    /\ srv = "direct"
    /\ StopBrowser
    /\ UNCHANGED <<srv, req>>

-----------------------------------------------------------------------------

Next ==
    \/ RunServerBoot
    \/ RunServerBrowserUp
    \/ RunServerBootFail
    \/ RunServerListen
    \/ RunServerCleanup
    \/ RunServerStop
    \/ DirectStop
    \/ \E r \in Reqs :
        \/ HandleProxy(r)
        \/ HandleHealth(r)
        \/ BrowserCreateTab(r)
        \/ OpenReturn(r)
        \/ OpenRaise(r)
        \/ SleepReturn(r)
        \/ SleepRaise(r)
        \/ ExtractReturn(r)
        \/ ExtractRaise(r)
        \/ CloseReturn(r)
        \/ CloseRaise(r)
        \/ Timeout(r)

Spec == Init /\ [][Next]_vars

\* The event loop runs the timer callback of asyncio.wait_for: a pending deadline
\* expires. Nothing is assumed of the engine: a browser operation may never
\* return, and a signal may never come.
SpecLive == Init /\ [][Next]_vars /\ \A r \in Reqs : WF_vars(Timeout(r))

-----------------------------------------------------------------------------
(* Properties *)

Rendered(q) == q.route = "/" /\ q.opens > 0

\* The message a 502 carries for the operation that failed first.
CauseOf(f) == IF f = "notready" THEN NotStartedMsg ELSE ErrOf(f)

\* C1: for every tab fetch_page obtained from browser.get, tab.close has been
\* called exactly once when the handler has returned its response (extract
\* succeeded, sleep or get_content raised, or the deadline expired during
\* them), and never more than once.
C1_CloseExactlyOnce ==
    \A r \in Reqs :
        /\ req[r].closes <= 1
        /\ (req[r].pc = "done" /\ req[r].tab # 0) => req[r].closes = 1

\* C1 witness: one request answered after its deadline expired in tab.sleep,
\* another answered after get_content raised, each with its tab closed once.
C1_Witness ==
    \E r, q \in Reqs :
        /\ req[r].pc = "done" /\ req[r].expiredAt = "sleeping"
        /\ req[r].tab # 0 /\ req[r].closes = 1
        /\ req[q].pc = "done" /\ req[q].fail = "get_content"
        /\ req[q].tab # 0 /\ req[q].closes = 1

\* C2: whenever the deadline expired at any await of the sequence (browser.get
\* and tab.close included), the response is 504 "Proxy timeout" and every tab
\* the engine created for the request is closed when the response is returned.
C2_TimeoutClosesEveryTab ==
    \A r \in Reqs :
        (req[r].pc = "done" /\ req[r].expiredAt # "") =>
            /\ req[r].status = 504
            /\ req[r].body = TimeoutText
            /\ \A i \in OwnedBy(r) : tabs[i].state = "closed"

\* C3: every open tab belongs to exactly one request, and that request's
\* handler has not returned yet.
C3_OpenTabHasRunningOwner ==
    \A i \in DOMAIN tabs :
        tabs[i].state = "open" =>
            LET users == {tabs[i].owner} \cup {r \in Reqs : req[r].tab = i}
            IN  /\ Cardinality(users) = 1
                /\ \A r \in users : InFlight(req[r])

\* C4: a request whose url is absent or empty is answered 400 "Missing required
\* query parameter: url" whatever its wait parameter, and no tab is opened for it.
C4_MissingUrl ==
    \A r \in Reqs :
        (req[r].route = "/" /\ ~TruthyUrl(req[r].url)) =>
            /\ req[r].pc = "done"
            /\ req[r].status = 400
            /\ req[r].body = MissingUrlText
            /\ req[r].opens = 0
            /\ OwnedBy(r) = {}

\* C4 witness: url empty and a wait that is no integer, answered 400 Missing.
C4_Witness ==
    \E r \in Reqs :
        /\ req[r].pc = "done" /\ req[r].route = "/"
        /\ req[r].url = Some("")
        /\ req[r].wait = Some(<<"a", "b", "c">>)
        /\ req[r].status = 400

C6_NoNegativeWait ==
    \A r \in Reqs :
        (Rendered(req[r]) /\ req[r].wait_ms # None) => req[r].wait_ms[1] >= 0

\* C7: the health probe answers 200 "ok" exactly when the session is Ready,
\* and 503 "browser not ready" otherwise.
C7_HealthIffReady ==
    \A r \in Reqs :
        (req[r].route = "/health") =>
            \/ req[r].status = 200 /\ req[r].body = OkText /\ req[r].ready
            \/ req[r].status = 503 /\ req[r].body = NotReadyText /\ ~req[r].ready

\* C7 witness: a probe answered 200, stop_browser, then a probe answered 503.
C7_Witness ==
    \E r, q \in Reqs :
        /\ req[r].route = "/health" /\ req[r].status = 200
        /\ req[q].route = "/health" /\ req[q].status = 503
        /\ stops = 1

\* C8 as stated: when get, sleep and get_content all returned before the
\* deadline, the response is 200 and its text is the content extracted.
C8_ExtractedMeans200 ==
    \A r \in Reqs :
        (req[r].pc = "done" /\ req[r].steps = 3) =>
            /\ req[r].status = 200
            /\ req[r].content \in {Some(p) : p \in Pages}
            /\ req[r].body = req[r].content

\* C8 amended: when get, sleep, get_content and close all returned before the
\* deadline, the response is 200 and its text is the content extracted.
C8_ClosedMeans200 ==
    \A r \in Reqs :
        (req[r].pc = "done" /\ req[r].steps = 3 /\ req[r].closed) =>
            /\ req[r].status = 200
            /\ req[r].content \in {Some(p) : p \in Pages}
            /\ req[r].body = req[r].content

\* C8 witness: two requests answered 200 with different pages.
C8_Witness ==
    \E r, q \in Reqs :
        /\ req[r].pc = "done" /\ req[r].steps = 3 /\ req[r].closed
        /\ req[q].pc = "done" /\ req[q].steps = 3 /\ req[q].closed
        /\ req[r].status = 200 /\ req[q].status = 200
        /\ req[r].body # req[q].body

\* C9: while tab.sleep runs, its duration is the requested one whenever a
\* non-negative integer wait was given, 0 included, and the default only when
\* wait is absent.
C9_SettleIsRequested ==
    \A r \in Reqs :
        req[r].pc = "sleeping" =>
            /\ (req[r].wait_ms # None /\ req[r].wait_ms[1] >= 0)
                   => req[r].slept = req[r].wait_ms
            /\ req[r].wait = None => req[r].slept = Some(DEFAULT_SETTLE_MS)

\* C10: a request whose render failed for another reason than the
\* deadline (session not ready, get, sleep or get_content raised) is answered
\* 502 "Proxy request failed: <cause>"; not ready, nothing was opened.
C10_RenderFailureIs502 ==
    \A r \in Reqs :
        (req[r].pc = "done" /\ req[r].fail \in {"notready", "get", "sleep", "get_content"}) =>
            /\ req[r].status = 502
            /\ req[r].body = FailedText(CauseOf(req[r].fail))
            /\ req[r].fail = "notready" => (req[r].opens = 0 /\ OwnedBy(r) = {})

\* C11: a request that shutdown did not abort is either still running, with no
\* response, or has exactly one of the four responses 400, 200, 504, 502 with
\* the text that goes with it; no error of validation, get, sleep, get_content
\* or close leaves handle_proxy as anything else.
C11_FourTerminalStates ==
    \A r \in Reqs :
        LET q == req[r]
        IN  /\ q.pc = "aborted" => srv \in {"cleaned", "exited"}
            /\ InFlight(q) => (q.status = 0 /\ q.body = None)
            /\ (q.pc = "done" /\ q.route = "/") =>
                   \/ q.status = 400 /\ q.body \in {MissingUrlText, InvalidWaitText}
                   \/ q.status = 200 /\ q.body \in {Some(p) : p \in Pages}
                   \/ q.status = 504 /\ q.body = TimeoutText
                   \/ q.status = 502 /\ Len(q.body) = 2 /\ q.body[1] = "Proxy request failed: "

\* C11 witness: tab.close raised after the deadline had expired in tab.sleep
\* and the request was answered 502; another request was answered 504.
C11_Witness ==
    \E r, q \in Reqs :
        /\ req[r].pc = "done" /\ req[r].expiredAt = "sleeping"
        /\ req[r].fail = "close" /\ req[r].status = 502
        /\ req[q].pc = "done" /\ req[q].status = 504

\* C12: under run_server the site accepts requests only while the session is
\* Ready and no engine has been stopped; stop_browser has run only when
\* run_server is past runner.cleanup(); and every handler that was started found
\* the browser there.
C12_CleanupBeforeStop ==
    srv # "direct" =>
        /\ Accepting => (session = "Ready" /\ browser # None /\ stops = 0)
        /\ stops > 0 => srv = "exited"
        /\ session = "Stopped" => (~Accepting /\ srv \in {"new", "crashed", "exited"})
        /\ \A r \in Reqs :
               /\ req[r].fail # "notready"
               /\ req[r].route = "/health" => (req[r].ready /\ req[r].status = 200)

\* C12 witness: run_server has stopped the browser after a shutdown that
\* interrupted one request; another request had been answered 200.
C12_Witness ==
    /\ srv = "exited" /\ stops = 1 /\ session = "Stopped"
    /\ \E r, q \in Reqs :
           /\ req[r].pc = "aborted"
           /\ req[q].pc = "done" /\ req[q].status = 200

\* C13: under run_server no request is accepted or handled before start_browser
\* has completed; the site is started only with the session Ready; and when the
\* engine failed to launch run_server has ended for good, the session is not
\* Ready, nothing was stopped and the site never listens.
C13_ListenOnlyWhenReady ==
    /\ [](/\ srv \in {"new", "starting", "crashed"} =>
               /\ ~Accepting
               /\ browser = None
               /\ session # "Ready"
               /\ \A r \in Reqs : req[r].pc = "idle"
          /\ srv \in {"started", "listening"} => (session = "Ready" /\ browser # None)
          /\ srv = "crashed" => (session = "Stopped" /\ stops = 0))
    /\ [][srv = "crashed" => srv' = "crashed"]_vars

\* C13 witness: the engine failed to launch and run_server ended with the error.
C13_Witness ==
    /\ srv = "crashed" /\ session = "Stopped" /\ browser = None
    /\ \A r \in Reqs : req[r].pc = "idle"

\* C14: stop_browser is safe in every session state. A termination is requested
\* only of a Ready session with a browser handle, and it leaves the handle None
\* and the session Stopped; a call with no handle (never started, or already
\* stopped) requests nothing and changes nothing, so a second call adds nothing
\* to the first: at most one termination is ever requested.
C14_StopIsIdempotent ==
    /\ [](stops <= 1)
    /\ [][/\ stops' # stops =>
                /\ stops' = stops + 1
                /\ browser # None /\ session = "Ready"
                /\ browser' = None /\ session' = "Stopped"
          /\ (DirectStop \/ RunServerStop) =>
                /\ browser' = None /\ session' = "Stopped"
                /\ browser = None =>
                       (stops' = stops /\ tabs' = tabs /\ session = "Stopped")]_vars

\* C14 witness: the object was stopped once, is open to further stop_browser
\* calls, and a request that came after the stop found no browser.
C14_Witness ==
    /\ srv = "direct" /\ stops = 1 /\ session = "Stopped" /\ browser = None
    /\ \E r \in Reqs : req[r].pc = "done" /\ req[r].fail = "notready"

\* C15: within one request the browser operations go open, wait, extract, close.
\* The request waits only on the tab that open returned, extracts only after the
\* wait returned, has a content only after all three returned; once close was
\* issued no further wait or extract is issued and close is not issued again;
\* and a request whose wait or extract raised has issued close.
C15_OpenWaitExtractClose ==
    /\ [](\A r \in Reqs :
             LET q == req[r]
             IN  /\ q.pc = "opening" => (q.opens = 1 /\ q.tab = 0 /\ q.steps = 0 /\ q.closes = 0)
                 /\ q.pc = "sleeping" =>
                        (q.tab \in OwnedBy(r) /\ q.steps = 1 /\ q.closes = 0 /\ q.slept # None)
                 /\ q.pc = "extracting" => (q.tab \in OwnedBy(r) /\ q.steps = 2 /\ q.closes = 0)
                 /\ q.pc = "closing" => (q.tab \in OwnedBy(r) /\ q.steps >= 1 /\ q.closes = 1)
                 /\ q.content # None => q.steps = 3
                 /\ q.closes > 0 => q.steps >= 1
                 /\ q.fail \in {"sleep", "get_content"} => q.closes = 1)
    /\ [][\A r \in Reqs :
             /\ req'[r].steps \in {req[r].steps, req[r].steps + 1}
             /\ req[r].closes > 0 =>
                    /\ req'[r].steps = req[r].steps
                    /\ req'[r].closes = req[r].closes
                    /\ req'[r].pc \in {"closing", "done", "aborted"}]_vars

\* C15 witness: one request's wait raised, another's extract raised, and each
\* issued its close, which returned.
C15_Witness ==
    \E r, q \in Reqs :
        /\ req[r].pc = "done" /\ req[r].fail = "sleep" /\ req[r].steps = 1
        /\ req[r].closes = 1 /\ req[r].closed
        /\ req[q].pc = "done" /\ req[q].fail = "get_content" /\ req[q].steps = 2
        /\ req[q].closes = 1 /\ req[q].closed

\* C16: concurrent requests are independent. While the server and the session
\* stay as they are, a step of one request (a return, an error, a deadline
\* expiry, a close) changes no other request's record and no tab but its own;
\* and whatever the other requests are suspended at, a request suspended at a
\* browser round-trip can take its next step as soon as the engine answers, and
\* a request not yet sent can be accepted.
C16_RequestsIndependent ==
    /\ [](\A r \in Reqs :
             /\ (req[r].pc = "opening" /\ session = "Ready") =>
                    (ENABLED BrowserCreateTab(r) \/ ENABLED OpenReturn(r))
             /\ req[r].pc = "sleeping" => ENABLED SleepReturn(r)
             /\ (req[r].pc = "extracting" /\ tabs[req[r].tab].state = "open") =>
                    ENABLED ExtractReturn(r)
             /\ req[r].pc = "closing" => ENABLED CloseReturn(r)
             /\ TimerArmed(req[r]) => ENABLED Timeout(r)
             /\ (Accepting /\ NextToArrive(r)) => (ENABLED HandleProxy(r) /\ ENABLED HandleHealth(r)))
    /\ [][(srv' = srv /\ stops' = stops) =>
              \A r \in Reqs :
                  req'[r] # req[r] =>
                      /\ \A q \in Reqs \ {r} : req'[q] = req[q]
                      /\ \A i \in DOMAIN tabs : tabs'[i] # tabs[i] => tabs[i].owner = r]_vars

\* C16 witness: two requests in flight together; the later one's deadline expired
\* and its own tab was closed, while the earlier one is still suspended at
\* get_content with its tab open.
C16_Witness ==
    \E r, q \in Reqs :
        /\ req[q].pc = "extracting" /\ tabs[req[q].tab].state = "open"
        /\ req[r].pc = "done" /\ req[r].status = 504 /\ req[r].expiredAt = "sleeping"
        /\ req[r].closed /\ tabs[req[r].tab].state = "closed"
        /\ req[q].tab < req[r].tab

\* C17: request handlers never mutate the session. Every step of handle_proxy,
\* fetch_page or handle_health (any step that changes a request's record while
\* the server goes on) leaves the browser handle, the lifecycle state and the
\* count of terminations unchanged; a step that changes one of them is a step of
\* start_browser or stop_browser and touches no request.
C17_HandlersLeaveSession ==
    [][/\ (req' # req /\ srv' = srv) => UNCHANGED <<browser, session, stops>>
       /\ \/ UNCHANGED <<browser, session, stops>>
          \/ ~ \E r \in Reqs : \/ HandleProxy(r) \/ HandleHealth(r)
                                \/ OpenReturn(r) \/ OpenRaise(r)
                                \/ SleepReturn(r) \/ SleepRaise(r)
                                \/ ExtractReturn(r) \/ ExtractRaise(r)
                                \/ CloseReturn(r) \/ CloseRaise(r)
                                \/ Timeout(r)
       /\ (browser' # browser \/ session' # session \/ stops' # stops) =>
              /\ req' = req
              /\ \/ RunServerBoot \/ RunServerBrowserUp \/ RunServerBootFail
                 \/ RunServerStop \/ DirectStop]_vars

\* C17 witness: a 200, then a request that failed at browser.get, and the
\* session is still Ready with its handle.
C17_Witness ==
    /\ browser # None /\ session = "Ready" /\ stops = 0
    /\ \E r, q \in Reqs :
           /\ req[r].pc = "done" /\ req[r].status = 200 /\ req[r].route = "/"
           /\ req[q].pc = "done" /\ req[q].status = 502 /\ req[q].fail = "get"

\* C18: no retries and no restart. A request calls browser.get at most once and
\* owns at most one tab, whatever its outcome; a session that was stopped stays
\* Stopped with no handle; the session becomes Ready, and the handle is assigned,
\* only in run_server's one start_browser, before any request and any stop.
C18_NoRetryNoRestart ==
    /\ [](/\ \A r \in Reqs :
                /\ req[r].opens <= 1
                /\ Cardinality(OwnedBy(r)) <= req[r].opens
                /\ req[r].pc = "done" /\ req[r].status \in {502, 504} => req[r].closes <= 1
          /\ stops <= 1
          /\ stops = 1 => (session = "Stopped" /\ browser = None))
    /\ [][(session' = "Ready" /\ session # "Ready") \/ (browser' # None /\ browser = None) =>
              /\ srv = "starting" /\ srv' = "started"
              /\ stops = 0
              /\ \A r \in Reqs : req[r].pc = "idle"]_vars

\* C18 witness: after the session was stopped a health probe and a proxy request
\* came, both were told there is no browser, and the session is still Stopped.
C18_Witness ==
    /\ stops = 1 /\ session = "Stopped" /\ browser = None
    /\ \E r, q \in Reqs :
           /\ req[r].pc = "done" /\ req[r].route = "/health" /\ req[r].status = 503
           /\ req[q].pc = "done" /\ req[q].fail = "notready" /\ req[q].opens = 0

\* C19: every request that reached the browser eventually gets a response (or
\* is dropped by the shutdown), given only that its deadline fires, however long
\* the engine takes to answer.
C19_EveryRequestAnswered ==
    \A r \in Reqs : InFlight(req[r]) ~> req[r].pc \in {"done", "aborted"}

\* C20: response codes say what happened. 504 only when the request's own
\* deadline expired; 200 only when get_content returned the content and
\* tab.close returned; 400 only when no browser operation was issued.
C20_CodesAreSound ==
    \A r \in Reqs :
        (req[r].pc = "done" /\ req[r].route = "/") =>
            /\ req[r].status = 504 => req[r].expiredAt # ""
            /\ req[r].status = 200 =>
                   (req[r].steps = 3 /\ req[r].content # None /\ req[r].closed)
            /\ req[r].status = 400 =>
                   (req[r].opens = 0 /\ req[r].closes = 0 /\ OwnedBy(r) = {})

====
